---- MODULE Spec2Model ----
(***************************************************************************)
(* MovieSeat API (src/server.js): an express server that keeps the catalog *)
(* (movies -> showtimes -> seats) in movies.json and the bookings in       *)
(* bookings.json.  Every handler is an async function: it runs atomically  *)
(* between two awaits and any other handler may run at an await.  One      *)
(* action of this model is one such atomic segment.  A file read or write  *)
(* is taken as atomic.  The GET handlers of the catalog (lines 50-74) read *)
(* and answer without writing and are left out; GET /api/bookings (lines   *)
(* 132-137) is served in SpecList.  The time field of a showtime is never  *)
(* read by a handler that writes and is left out too.                      *)
(*                                                                         *)
(* A seat 'A<i>' is the number i; the seats array of a showtime is the     *)
(* sequence of the statuses, seat 'A<i>' at position i, as ensureFiles     *)
(* lays it out.  A booking id 'b<t>' is the number t.  A file is <<>>      *)
(* when it does not exist and <<content>> when it does.                    *)
(***************************************************************************)
EXTENDS Integers, Sequences, FiniteSets, TLC

\* ---- bounds of the model
MaxCalls == 3
MaxClock == 2
MaxSeatsPerReq == 2
MaxLedger == 2

\* ---- program constants
NumSeats == 36

Procs == {"p1", "p2"}
ProcNo == [p \in Procs |-> IF p = "p1" THEN 1 ELSE 2]

VARIABLES
    moviesFile,     \* MOVIES_FILE: <<>> or <<movies>>
    bookingsFile,   \* BOOKINGS_FILE: <<>> or <<bookings>>
    now,            \* Date.now()
    seedPc,         \* position of ensureFiles
    pc,             \* pc[p]: position of the handler p runs
    call,           \* call[p]: the request p serves
    lmovies,        \* lmovies[p]: the handler's local `movies`
    lbookings,      \* lbookings[p]: the handler's local `bookings`
    lbooking,       \* lbooking[p]: the handler's local `booking`, <<>> if none
    warm,           \* both files existed when the server started
    hist            \* the calls that ended, in the order they ended

vars == <<moviesFile, bookingsFile, now, seedPc, pc, call, lmovies, lbookings,
          lbooking, warm, hist>>

\* ------------------------------------------------------------------ data

Min(S) == CHOOSE x \in S : \A y \in S : x <= y

SeqsUpTo(S, n) == UNION {[1..k -> S] : k \in 0..n}

AllAvailable == [i \in 1..NumSeats |-> "available"]

\* The catalog ensureFiles writes.
SeedMovies ==
    << [id |-> "m1",
        showtimes |-> << [id |-> "s1", seats |-> AllAvailable] >>] >>

\* A catalog of an earlier run to which a second movie was added.
TwoMovies ==
    SeedMovies \o
    << [id |-> "m2",
        showtimes |-> << [id |-> "s2", seats |-> AllAvailable] >>] >>

\* ---- requests
\* A seat of the showtime and a seat id no showtime has.
SeatChoices == {1, NumSeats + 1}
SeatLists == SeqsUpTo(SeatChoices, MaxSeatsPerReq)

Body(c, s, l, arr) ==
    [customerName |-> c, showtimeId |-> s, seats |-> l, isArray |-> arr]

\* Every seat list on the seeded showtime, one on the second showtime and on
\* a showtime no movie has.
ValidBodies ==
    {Body("Al", "s1", l, TRUE) : l \in SeatLists}
    \cup {Body("Al", s, <<1>>, TRUE) : s \in {"s2", "sX"}}

InvalidBodies ==
    { Body("", "s1", <<1>>, TRUE),
      Body("Al", "", <<1>>, TRUE),
      Body("Al", "s1", <<>>, FALSE) }

Bodies == ValidBodies \cup InvalidBodies

NoBody == Body("", "", <<>>, FALSE)

BookingIds == 1..MaxClock

NoCall == [op |-> "none", body |-> NoBody, id |-> 0, solo |-> FALSE, wrote |-> FALSE]

\* ------------------------------------------------------------------ helpers

\* readJSON (lines 14-16).  fs.pathExists(file) is a promise, and a promise is
\* truthy: the conditional always takes fs.readJSON(file), which rejects when
\* the file does not exist and yields its content otherwise.
readJSONThrows(file) == Len(file) = 0

readJSON(file) == file[1]

\* writeJSON (lines 17-19): the file exists afterwards and holds data.
writeJSON(data) == <<data>>

\* m.showtimes.find(x => x.id === showtimeId): the first position, 0 if none.
FindShowtimeIn(m, showtimeId) ==
    LET J == {j \in 1..Len(m.showtimes) : m.showtimes[j].id = showtimeId}
    IN  IF J = {} THEN 0 ELSE Min(J)

\* The loop of lines 89-96: the first movie that has the showtime, as
\* <<position of the movie, position of the showtime>>, <<0, 0>> if none.
FindShowtime(movies, showtimeId) ==
    LET I == {i \in 1..Len(movies) : FindShowtimeIn(movies[i], showtimeId) # 0}
    IN  IF I = {} THEN <<0, 0>>
        ELSE <<Min(I), FindShowtimeIn(movies[Min(I)], showtimeId)>>

\* showtime.seats.find(x => x.id === seatId) finds a seat.
HasSeat(seats, seatId) == seatId \in 1..Len(seats)

\* Lines 100-103 with `seat && seat.status !== 'available'` for the test of
\* line 102: a seat the showtime does not have passes the check.
UnavailableKnownOnly(seats, requested) ==
    SelectSeq(requested,
              LAMBDA seatId : HasSeat(seats, seatId) /\ seats[seatId] # "available")

\* Lines 100-103: the requested seats that are missing or not available.
Unavailable(seats, requested) ==
    SelectSeq(requested,
              LAMBDA seatId : ~HasSeat(seats, seatId) \/ seats[seatId] # "available")

\* The loops of lines 108-111 and 156-159 without the find of the listed
\* seat: every seat of the showtime gets the status.
SetStatusAll(seats, seatIds, status) ==
    [i \in 1..Len(seats) |-> status]

\* The loops of lines 108-111 and 156-159: every listed seat that exists gets
\* the status, the others keep theirs.
SetStatus(seats, seatIds, status) ==
    [i \in 1..Len(seats) |->
        IF \E k \in 1..Len(seatIds) : seatIds[k] = i THEN status ELSE seats[i]]

WithSeats(movies, mi, si, seats) ==
    [movies EXCEPT ![mi].showtimes[si].seats = seats]

\* Line 81.
InvalidRequest(body) ==
    body.customerName = "" \/ body.showtimeId = "" \/ ~body.isArray

Outcome(status, seats, movies, bookings, booking) ==
    [status |-> status, seats |-> seats, movies |-> movies,
     bookings |-> bookings, booking |-> booking]

\* Lines 87-122 with `movieId: movies[0].id` for line 117: the booking records
\* the first movie of the catalog, not the movie of the showtime.
PostSyncFirstMovie(movies, bookings, body, t) ==
    LET f == FindShowtime(movies, body.showtimeId)
    IN  IF f[1] = 0
        THEN Outcome("404", <<>>, movies, bookings, <<>>)
        ELSE
          LET seats == movies[f[1]].showtimes[f[2]].seats
              unavailable == Unavailable(seats, body.seats)
              booking == [id |-> t,
                          customerName |-> body.customerName,
                          movieId |-> movies[1].id,
                          showtimeId |-> body.showtimeId,
                          seats |-> body.seats]
          IN  IF Len(unavailable) > 0
              THEN Outcome("409", unavailable, movies, bookings, <<>>)
              ELSE Outcome("201", <<>>,
                           WithSeats(movies, f[1], f[2],
                                     SetStatus(seats, body.seats, "booked")),
                           Append(bookings, booking), <<booking>>)

\* Lines 87-122 of POST /api/bookings, run on the handler's locals at time t.
PostSync(movies, bookings, body, t) ==
    LET f == FindShowtime(movies, body.showtimeId)
    IN  IF f[1] = 0
        THEN Outcome("404", <<>>, movies, bookings, <<>>)
        ELSE
          LET seats == movies[f[1]].showtimes[f[2]].seats
              unavailable == Unavailable(seats, body.seats)
              booking == [id |-> t,
                          customerName |-> body.customerName,
                          movieId |-> movies[f[1]].id,
                          showtimeId |-> body.showtimeId,
                          seats |-> body.seats]
          IN  IF Len(unavailable) > 0
              THEN Outcome("409", unavailable, movies, bookings, <<>>)
              ELSE Outcome("201", <<>>,
                           WithSeats(movies, f[1], f[2],
                                     SetStatus(seats, body.seats, "booked")),
                           Append(bookings, booking), <<booking>>)

\* bookings.findIndex(b => b.id === id) (line 145), 0 for -1.
FindIndex(bookings, id) ==
    LET I == {i \in 1..Len(bookings) : bookings[i].id = id}
    IN  IF I = {} THEN 0 ELSE Min(I)

\* bookings.splice(idx, 1) (line 148): the array that remains.
Splice(bookings, idx) ==
    [i \in 1..(Len(bookings) - 1) |->
        IF i < idx THEN bookings[i] ELSE bookings[i + 1]]

\* movies.find(mm => mm.id === booking.movieId) (line 152), 0 if none.
FindMovie(movies, movieId) ==
    LET I == {i \in 1..Len(movies) : movies[i].id = movieId}
    IN  IF I = {} THEN 0 ELSE Min(I)

\* Lines 154-160: the movies with the seats of the booking freed.
FreeSeats(movies, mi, booking) ==
    LET si == FindShowtimeIn(movies[mi], booking.showtimeId)
    IN  IF si = 0 THEN movies
        ELSE WithSeats(movies, mi, si,
                       SetStatus(movies[mi].showtimes[si].seats,
                                 booking.seats, "available"))

\* ------------------------------------------------------------------ state

Idle(p) == pc[p] = "idle"

AllIdle == \A p \in Procs : Idle(p)

Started == Len(hist) + Cardinality({p \in Procs : ~Idle(p)})

\* A request is served by the first free handler slot.
FreeSlot(p) == Idle(p) /\ \A q \in Procs : Idle(q) => ProcNo[p] <= ProcNo[q]

\* The server listens and ensureFiles starts on no file (a first start), or
\* both files exist and ensureFiles, which then changes nothing, is over.
Init ==
    /\ \E w \in BOOLEAN :
          /\ warm = w
          /\ moviesFile = IF w THEN <<TwoMovies>> ELSE <<>>
          /\ bookingsFile = IF w THEN << <<>> >> ELSE <<>>
          /\ seedPc = IF w THEN "done" ELSE "e22"
    /\ now = 1
    /\ pc = [p \in Procs |-> "idle"]
    /\ call = [p \in Procs |-> NoCall]
    /\ lmovies = [p \in Procs |-> <<>>]
    /\ lbookings = [p \in Procs |-> <<>>]
    /\ lbooking = [p \in Procs |-> <<>>]
    /\ hist = <<>>

\* The record of a call that ended: what was asked, what was answered
\* (status "threw": the handler's promise rejected and nothing was answered),
\* whether no other request and no seeding ran during the call, and whether
\* the call wrote a file.
Ended(c, status, seats, booking) ==
    [op |-> c.op, body |-> c.body, id |-> c.id, status |-> status,
     seats |-> seats, booking |-> booking, solo |-> c.solo, wrote |-> c.wrote]

\* A request arrives at p: the calls in flight are no longer alone.
Arrive(p, op, body, id) ==
    [q \in Procs |->
        IF q = p
        THEN [op |-> op, body |-> body, id |-> id,
              solo |-> AllIdle /\ seedPc = "done", wrote |-> FALSE]
        ELSE IF Idle(q) THEN call[q] ELSE [call[q] EXCEPT !.solo = FALSE]]

\* The handler of p ends with an answer (or a rejection).
Finish(p, c, status, seats, booking) ==
    /\ hist' = Append(hist, Ended(c, status, seats, booking))
    /\ pc' = [pc EXCEPT ![p] = "idle"]
    /\ call' = [call EXCEPT ![p] = NoCall]
    /\ lmovies' = [lmovies EXCEPT ![p] = <<>>]
    /\ lbookings' = [lbookings EXCEPT ![p] = <<>>]
    /\ lbooking' = [lbooking EXCEPT ![p] = <<>>]

\* ------------------------------------------------------------------ clock

\* Time passes.  Only line 115 reads the clock, so only the ticks before it
\* are told apart.
Tick ==
    /\ now < MaxClock
    /\ \E p \in Procs : pc[p] = "c85"
    /\ now' = now + 1
    /\ UNCHANGED <<moviesFile, bookingsFile, seedPc, pc, call, lmovies,
                   lbookings, lbooking, warm, hist>>

\* ------------------------------------------------------------------ ensureFiles

\* Line 22: await fs.pathExists(MOVIES_FILE).
Seed22 ==
    /\ seedPc = "e22"
    /\ seedPc' = IF Len(moviesFile) = 0 THEN "e23" ELSE "e42"
    /\ call' = [q \in Procs |-> [call[q] EXCEPT !.solo = FALSE]]
    /\ UNCHANGED <<moviesFile, bookingsFile, now, pc, lmovies, lbookings,
                   lbooking, warm, hist>>

\* Lines 23-39: await writeJSON(MOVIES_FILE, [...]).
Seed23 ==
    /\ seedPc = "e23"
    /\ moviesFile' = writeJSON(SeedMovies)
    /\ seedPc' = "e42"
    /\ call' = [q \in Procs |-> [call[q] EXCEPT !.solo = FALSE]]
    /\ UNCHANGED <<bookingsFile, now, pc, lmovies, lbookings, lbooking, warm, hist>>

\* Line 42 without the test: the write of line 43 always follows.
Seed42Unchecked ==
    /\ seedPc = "e42"
    /\ seedPc' = "e43"
    /\ call' = [q \in Procs |-> [call[q] EXCEPT !.solo = FALSE]]
    /\ UNCHANGED <<moviesFile, bookingsFile, now, pc, lmovies, lbookings,
                   lbooking, warm, hist>>

\* Line 42: await fs.pathExists(BOOKINGS_FILE).
Seed42 ==
    /\ seedPc = "e42"
    /\ seedPc' = IF Len(bookingsFile) = 0 THEN "e43" ELSE "done"
    /\ call' = [q \in Procs |-> [call[q] EXCEPT !.solo = FALSE]]
    /\ UNCHANGED <<moviesFile, bookingsFile, now, pc, lmovies, lbookings,
                   lbooking, warm, hist>>

\* Line 43: await writeJSON(BOOKINGS_FILE, []).
Seed43 ==
    /\ seedPc = "e43"
    /\ bookingsFile' = writeJSON(<<>>)
    /\ seedPc' = "done"
    /\ call' = [q \in Procs |-> [call[q] EXCEPT !.solo = FALSE]]
    /\ UNCHANGED <<moviesFile, now, pc, lmovies, lbookings, lbooking, warm, hist>>

\* ------------------------------------------------------------------ POST /api/bookings

\* Lines 80-84: the request is refused (400) or the read of the movies starts.
PostStart(p, body) ==
    /\ FreeSlot(p)
    /\ Started < MaxCalls
    /\ LET arrived == Arrive(p, "create", body, 0)
       IN  IF InvalidRequest(body)
           THEN /\ hist' = Append(hist, Ended(arrived[p], "400", <<>>, <<>>))
                /\ call' = [arrived EXCEPT ![p] = NoCall]
                /\ pc' = pc
           ELSE /\ call' = arrived
                /\ pc' = [pc EXCEPT ![p] = "c84"]
                /\ hist' = hist
    /\ UNCHANGED <<moviesFile, bookingsFile, now, seedPc, lmovies, lbookings,
                   lbooking, warm>>

\* Line 84: movies = await readJSON(MOVIES_FILE).
Post84(p) ==
    /\ pc[p] = "c84"
    /\ IF readJSONThrows(moviesFile)
       THEN Finish(p, call[p], "threw", <<>>, <<>>)
       ELSE /\ lmovies' = [lmovies EXCEPT ![p] = readJSON(moviesFile)]
            /\ pc' = [pc EXCEPT ![p] = "c85"]
            /\ UNCHANGED <<call, lbookings, lbooking, hist>>
    /\ UNCHANGED <<moviesFile, bookingsFile, now, seedPc, warm>>

\* Lines 85-122 with the seats marked while they are checked and the movies
\* saved before the 409 is sent: the available seats of a refused request
\* are left 'booked'.
Post85MarksFirst(p) ==
    /\ pc[p] = "c85"
    /\ IF readJSONThrows(bookingsFile)
       THEN /\ Finish(p, call[p], "threw", <<>>, <<>>)
            /\ UNCHANGED moviesFile
       ELSE LET out == PostSync(lmovies[p], readJSON(bookingsFile), call[p].body, now)
                f == FindShowtime(lmovies[p], call[p].body.showtimeId)
            IN  IF out.status = "201"
                THEN /\ lmovies' = [lmovies EXCEPT ![p] = out.movies]
                     /\ lbookings' = [lbookings EXCEPT ![p] = out.bookings]
                     /\ lbooking' = [lbooking EXCEPT ![p] = out.booking]
                     /\ pc' = [pc EXCEPT ![p] = "c123"]
                     /\ UNCHANGED <<call, hist, moviesFile>>
                ELSE /\ Finish(p, call[p], out.status, out.seats, <<>>)
                     /\ moviesFile' =
                           IF out.status = "409"
                           THEN writeJSON(WithSeats(lmovies[p], f[1], f[2],
                                    SetStatus(lmovies[p][f[1]].showtimes[f[2]].seats,
                                              call[p].body.seats, "booked")))
                           ELSE moviesFile
    /\ UNCHANGED <<bookingsFile, now, seedPc, warm>>

\* Lines 85-122: bookings = await readJSON(BOOKINGS_FILE), then the showtime
\* is looked up, the seats are checked and marked, and the booking is pushed.
Post85(p) ==
    /\ pc[p] = "c85"
    /\ IF readJSONThrows(bookingsFile)
       THEN Finish(p, call[p], "threw", <<>>, <<>>)
       ELSE LET out == PostSync(lmovies[p], readJSON(bookingsFile), call[p].body, now)
            IN  IF out.status = "201"
                THEN /\ lmovies' = [lmovies EXCEPT ![p] = out.movies]
                     /\ lbookings' = [lbookings EXCEPT ![p] = out.bookings]
                     /\ lbooking' = [lbooking EXCEPT ![p] = out.booking]
                     /\ pc' = [pc EXCEPT ![p] = "c123"]
                     /\ UNCHANGED <<call, hist>>
                ELSE Finish(p, call[p], out.status, out.seats, <<>>)
    /\ UNCHANGED <<moviesFile, bookingsFile, now, seedPc, warm>>

\* Line 123: await writeJSON(BOOKINGS_FILE, bookings).
Post123(p) ==
    /\ pc[p] = "c123"
    /\ bookingsFile' = writeJSON(lbookings[p])
    /\ call' = [call EXCEPT ![p].wrote = TRUE]
    /\ pc' = [pc EXCEPT ![p] = "c124"]
    /\ UNCHANGED <<moviesFile, now, seedPc, lmovies, lbookings, lbooking, warm, hist>>

\* Lines 124-126: await writeJSON(MOVIES_FILE, movies), then 201 with the booking.
Post124(p) ==
    /\ pc[p] = "c124"
    /\ moviesFile' = writeJSON(lmovies[p])
    /\ Finish(p, [call[p] EXCEPT !.wrote = TRUE], "201", <<>>, lbooking[p])
    /\ UNCHANGED <<bookingsFile, now, seedPc, warm>>

\* ------------------------------------------------------------------ DELETE /api/bookings/:id

\* Lines 143-144: the read of the bookings starts.
DeleteStart(p, id) ==
    /\ FreeSlot(p)
    /\ Started < MaxCalls
    /\ call' = Arrive(p, "cancel", NoBody, id)
    /\ pc' = [pc EXCEPT ![p] = "d144"]
    /\ UNCHANGED <<moviesFile, bookingsFile, now, seedPc, lmovies, lbookings,
                   lbooking, warm, hist>>

\* Lines 144-151: bookings = await readJSON(BOOKINGS_FILE); 404 if no booking
\* has the id, else the booking is spliced out of the local array.
Delete144(p) ==
    /\ pc[p] = "d144"
    /\ IF readJSONThrows(bookingsFile)
       THEN Finish(p, call[p], "threw", <<>>, <<>>)
       ELSE LET bookings == readJSON(bookingsFile)
                idx == FindIndex(bookings, call[p].id)
            IN  IF idx = 0
                THEN Finish(p, call[p], "404", <<>>, <<>>)
                ELSE /\ lbooking' = [lbooking EXCEPT ![p] = <<bookings[idx]>>]
                     /\ lbookings' = [lbookings EXCEPT ![p] = Splice(bookings, idx)]
                     /\ pc' = [pc EXCEPT ![p] = "d151"]
                     /\ UNCHANGED <<call, lmovies, hist>>
    /\ UNCHANGED <<moviesFile, bookingsFile, now, seedPc, warm>>

\* Lines 151-160 with a cancel that gives up when the movie of the booking is
\* not in the catalog.
Delete151Strict(p) ==
    /\ pc[p] = "d151"
    /\ IF readJSONThrows(moviesFile)
       THEN Finish(p, call[p], "threw", <<>>, <<>>)
       ELSE LET movies == readJSON(moviesFile)
                mi == FindMovie(movies, lbooking[p][1].movieId)
            IN  IF mi = 0
                THEN Finish(p, call[p], "404", <<>>, <<>>)
                ELSE /\ lmovies' = [lmovies EXCEPT ![p] =
                                       FreeSeats(movies, mi, lbooking[p][1])]
                     /\ pc' = [pc EXCEPT ![p] = "d161"]
                     /\ UNCHANGED <<call, lbookings, lbooking, hist>>
    /\ UNCHANGED <<moviesFile, bookingsFile, now, seedPc, warm>>

\* Lines 151-160: movies = await readJSON(MOVIES_FILE); when the movie of the
\* booking is found its seats are freed and the movies are written next.
Delete151(p) ==
    /\ pc[p] = "d151"
    /\ IF readJSONThrows(moviesFile)
       THEN Finish(p, call[p], "threw", <<>>, <<>>)
       ELSE LET movies == readJSON(moviesFile)
                mi == FindMovie(movies, lbooking[p][1].movieId)
            IN  /\ lmovies' = [lmovies EXCEPT ![p] =
                                  IF mi = 0 THEN movies
                                  ELSE FreeSeats(movies, mi, lbooking[p][1])]
                /\ pc' = [pc EXCEPT ![p] = IF mi = 0 THEN "d164" ELSE "d161"]
                /\ UNCHANGED <<call, lbookings, lbooking, hist>>
    /\ UNCHANGED <<moviesFile, bookingsFile, now, seedPc, warm>>

\* Line 161: await writeJSON(MOVIES_FILE, movies).
Delete161(p) ==
    /\ pc[p] = "d161"
    /\ moviesFile' = writeJSON(lmovies[p])
    /\ call' = [call EXCEPT ![p].wrote = TRUE]
    /\ pc' = [pc EXCEPT ![p] = "d164"]
    /\ UNCHANGED <<bookingsFile, now, seedPc, lmovies, lbookings, lbooking, warm, hist>>

\* Lines 164-165: await writeJSON(BOOKINGS_FILE, bookings), then 200 with the id.
Delete164(p) ==
    /\ pc[p] = "d164"
    /\ bookingsFile' = writeJSON(lbookings[p])
    /\ Finish(p, [call[p] EXCEPT !.wrote = TRUE], "200", <<>>, lbooking[p])
    /\ UNCHANGED <<moviesFile, now, seedPc, warm>>

\* ------------------------------------------------------------------ specification

Next ==
    \/ Tick
    \/ Seed22
    \/ Seed23
    \/ Seed42
    \/ Seed43
    \/ \E p \in Procs, body \in Bodies : PostStart(p, body)
    \/ \E p \in Procs : Post84(p)
    \/ \E p \in Procs : Post85(p)
    \/ \E p \in Procs : Post123(p)
    \/ \E p \in Procs : Post124(p)
    \/ \E p \in Procs, id \in BookingIds : DeleteStart(p, id)
    \/ \E p \in Procs : Delete144(p)
    \/ \E p \in Procs : Delete151(p)
    \/ \E p \in Procs : Delete161(p)
    \/ \E p \in Procs : Delete164(p)

Spec == Init /\ [][Next]_vars

\* ------------------------------------------------------------------ properties

\* The persisted data, [] for a file that does not exist.
Ledger == IF Len(bookingsFile) = 0 THEN <<>> ELSE bookingsFile[1]
Catalog == IF Len(moviesFile) = 0 THEN <<>> ELSE moviesFile[1]

\* No request is in flight and the start-up is over.
Quiet == AllIdle /\ seedPc = "done"

SeatSet(seatIds) == {seatIds[k] : k \in 1..Len(seatIds)}

HasDuplicates(seatIds) ==
    \E i, j \in 1..Len(seatIds) : i < j /\ seatIds[i] = seatIds[j]

Created(e) == e.op = "create" /\ e.status = "201"

Answered(e) == e.status # "threw"

ProperSeats(seatIds) == seatIds # <<>> /\ ~HasDuplicates(seatIds)

\* Every create so far named at least one seat and no seat twice, or was
\* refused by line 81.
SeatListsProper ==
    \A i \in 1..Len(hist) :
        (hist[i].op = "create" /\ hist[i].status # "400")
            => ProperSeats(hist[i].body.seats)

\* The positions <<movie, showtime>> of the catalog.
Positions(movies) ==
    UNION {{<<i, j>> : j \in 1..Len(movies[i].showtimes)} : i \in 1..Len(movies)}

\* The status of a seat under every showtime of the catalog with the id.
Statuses(movies, showtimeId, seatId) ==
    {movies[x[1]].showtimes[x[2]].seats[seatId] :
        x \in {y \in Positions(movies) :
                  /\ movies[y[1]].showtimes[y[2]].id = showtimeId
                  /\ HasSeat(movies[y[1]].showtimes[y[2]].seats, seatId)}}

\* C1: no seat id appears in two bookings of the ledger for the same showing
\* (shown for bookings whose seat lists repeat no seat).
C1_NoDoubleBooking ==
    \A i, j \in 1..Len(Ledger) :
        (/\ i < j /\ Ledger[i].showtimeId = Ledger[j].showtimeId
         /\ ProperSeats(Ledger[i].seats) /\ ProperSeats(Ledger[j].seats))
            => SeatSet(Ledger[i].seats) \cap SeatSet(Ledger[j].seats) = {}

\* C2: whenever no request is in flight, a seat of a showing is 'booked' in
\* the persisted catalog if and only if a booking of the persisted ledger
\* references that showing and that seat (shown for requests whose seat
\* lists are not empty and repeat no seat).
C2_SeatLedgerAgreement ==
    (Quiet /\ SeatListsProper) =>
        \A i \in 1..Len(Catalog) : \A j \in 1..Len(Catalog[i].showtimes) :
            LET st == Catalog[i].showtimes[j]
            IN  \A seatId \in 1..Len(st.seats) :
                    st.seats[seatId] = "booked"
                        <=> \E k \in 1..Len(Ledger) :
                                /\ Ledger[k].showtimeId = st.id
                                /\ seatId \in SeatSet(Ledger[k].seats)

\* ---- the calls of hist run one at a time, in a given order

Perms(n) == {f \in [1..n -> 1..n] : \A a, b \in 1..n : f[a] = f[b] => a = b}

\* One call run alone on the data st, and whether it answers as e was answered.
SeqStep(st, e) ==
    IF e.op = "create"
    THEN IF InvalidRequest(e.body)
         THEN [ok |-> e.status = "400", movies |-> st.movies, bookings |-> st.bookings]
         ELSE LET t == IF Len(e.booking) = 1 THEN e.booking[1].id ELSE 1
                  out == PostSync(st.movies, st.bookings, e.body, t)
              IN  [ok |-> /\ out.status = e.status
                          /\ out.seats = e.seats
                          /\ out.booking = e.booking,
                   movies |-> out.movies, bookings |-> out.bookings]
    ELSE LET idx == FindIndex(st.bookings, e.id)
         IN  IF idx = 0
             THEN [ok |-> e.status = "404", movies |-> st.movies,
                   bookings |-> st.bookings]
             ELSE LET booking == st.bookings[idx]
                      mi == FindMovie(st.movies, booking.movieId)
                  IN  [ok |-> e.status = "200" /\ e.booking[1].id = booking.id,
                       movies |-> IF mi = 0 THEN st.movies
                                  ELSE FreeSeats(st.movies, mi, booking),
                       bookings |-> Splice(st.bookings, idx)]

RECURSIVE Replay(_, _)
Replay(order, k) ==
    IF k = 0
    THEN [ok |-> TRUE, movies |-> TwoMovies, bookings |-> <<>>]
    ELSE LET prev == Replay(order, k - 1)
         IN  IF prev.ok THEN SeqStep(prev, hist[order[k]]) ELSE prev

OnShowtime(e, showtimeId) ==
    \/ e.op = "create" /\ e.body.showtimeId = showtimeId
    \/ e.op = "cancel" /\ (Len(e.booking) = 1 => e.booking[1].showtimeId = showtimeId)

\* C3: when calls on one showing have run, concurrently or not, on data that
\* existed at the start, and all have ended, their answers and the persisted
\* ledger and catalog are those of the same calls run one at a time in some
\* order (shown for requests whose seat lists are not empty and repeat no
\* seat).
C3_TotalOrder ==
    (warm /\ AllIdle /\ SeatListsProper /\ \A i \in 1..Len(hist) : OnShowtime(hist[i], "s1"))
        => \E order \in Perms(Len(hist)) :
              LET r == Replay(order, Len(hist))
              IN  /\ r.ok
                  /\ moviesFile = <<r.movies>>
                  /\ bookingsFile = <<r.bookings>>

\* hist[i] is a successful create and hist[j] the successful cancel of the id
\* it returned, both run with no other request during them.
CreateThenCancel(i, j) ==
    /\ Created(hist[i]) /\ hist[i].solo
    /\ hist[j].op = "cancel" /\ hist[j].status = "200" /\ hist[j].solo
    /\ hist[j].id = hist[i].booking[1].id

\* C4: after a successful create of seats S and then a successful cancel of
\* the returned id, with no other request in between, every seat of S is
\* 'available' and no booking of the ledger has the id; and a create of the
\* same S on the same showing that follows succeeds (shown for requests whose
\* seat lists are not empty and repeat no seat).
C4_CancelRoundTrip ==
    LET n == Len(hist)
    IN  /\ (n >= 2 /\ Quiet /\ SeatListsProper /\ CreateThenCancel(n - 1, n))
            => LET b == hist[n - 1].booking[1]
               IN  /\ \A seatId \in SeatSet(b.seats) :
                          Statuses(Catalog, b.showtimeId, seatId) = {"available"}
                   /\ \A k \in 1..Len(Ledger) : Ledger[k].id # b.id
        /\ (/\ n >= 3 /\ SeatListsProper
            /\ CreateThenCancel(n - 2, n - 1)
            /\ hist[n].op = "create" /\ hist[n].solo
            /\ hist[n].body = hist[n - 2].body)
            => hist[n].status = "201"

\* C5: the step in which a create is answered 409 changes neither file, and
\* the call wrote no file before it.
C5_RejectionChangesNothing ==
    [][(Len(hist') = Len(hist) + 1 /\ hist'[Len(hist')].status = "409")
        => /\ moviesFile' = moviesFile
           /\ bookingsFile' = bookingsFile
           /\ ~hist'[Len(hist')].wrote]_vars

\* A create was answered 409 for a request that also lists an available seat.
C5_Witness ==
    \E i \in 1..Len(hist) :
        /\ hist[i].status = "409"
        /\ \E k \in 1..Len(hist[i].body.seats) :
              Statuses(Catalog, hist[i].body.showtimeId, hist[i].body.seats[k])
                  = {"available"}

\* The positions of the requested seats that the seat map lacks or holds with
\* a status other than 'available'.
BadPositions(seats, requested) ==
    {k \in 1..Len(requested) :
        \/ requested[k] \notin 1..Len(seats)
        \/ seats[requested[k]] # "available"}

\* u lists the requested seats at the positions B, in the order of the request.
ListsPositions(u, requested, B) ==
    /\ Len(u) = Cardinality(B)
    /\ \A k \in B : u[Cardinality({m \in B : m <= k})] = requested[k]

C7_EmptySeatListRejected ==
    /\ \A i \in 1..Len(hist) :
          (/\ hist[i].op = "create" /\ Answered(hist[i])
           /\ hist[i].body.isArray /\ hist[i].body.seats = <<>>)
          => hist[i].status = "400" /\ ~hist[i].wrote
    /\ \A k \in 1..Len(Ledger) : Ledger[k].seats # <<>>

\* C8: a create whose seat list repeats a seat id and that is answered is
\* answered 400 and has written no file, and no booking of the ledger lists
\* a seat id twice.
C8_DuplicateSeatsRejected ==
    /\ \A i \in 1..Len(hist) :
          (/\ hist[i].op = "create" /\ Answered(hist[i])
           /\ HasDuplicates(hist[i].body.seats))
          => hist[i].status = "400" /\ ~hist[i].wrote
    /\ \A k \in 1..Len(Ledger) : ~HasDuplicates(Ledger[k].seats)

\* C9: no two bookings of the ledger have the same id, and no two successful
\* creates returned the same id (shown for bookings whose seat lists are not
\* empty and repeat no seat).
C9_UniqueBookingIds ==
    /\ \A i, j \in 1..Len(Ledger) :
          (/\ i < j
           /\ ProperSeats(Ledger[i].seats) /\ ProperSeats(Ledger[j].seats))
          => Ledger[i].id # Ledger[j].id
    /\ \A i, j \in 1..Len(hist) :
          (/\ i < j /\ Created(hist[i]) /\ Created(hist[j])
           /\ ProperSeats(hist[i].body.seats) /\ ProperSeats(hist[j].body.seats))
              => hist[i].booking[1].id # hist[j].booking[1].id

\* C10: a create that passes the validation of line 81 and names a showtime
\* no movie has is answered 404 and has written no file.
C10_UnknownShowing404 ==
    \A i \in 1..Len(hist) :
        (/\ hist[i].op = "create"
         /\ ~InvalidRequest(hist[i].body)
         /\ hist[i].body.showtimeId = "sX")
        => hist[i].status = "404" /\ ~hist[i].wrote

\* Line 144 met the bookings file (when it existed) and found no booking
\* with the id asked for.
NoSuchBooking(p) == FindIndex(Ledger, call[p].id) = 0

\* C11: a cancel whose id matches no booking of the ledger is answered 404,
\* changes neither file and has written no file.
C11_UnknownBooking404 ==
    [][\A p \in Procs :
        (pc[p] = "d144" /\ pc'[p] # "d144" /\ NoSuchBooking(p))
        => /\ pc'[p] = "idle"
           /\ hist'[Len(hist')].status = "404"
           /\ ~hist'[Len(hist')].wrote
           /\ moviesFile' = moviesFile
           /\ bookingsFile' = bookingsFile]_vars

\* A create was refused because of its seats.
Refused(e) == e.op = "create" /\ e.status \notin {"201", "400", "404", "threw"}

\* C13: a create refused for seats that no seat map has and a create refused
\* for seats that exist and are booked are answered with different kinds of
\* failure.
C13_UnknownSeatsDistinct ==
    \A i, j \in 1..Len(hist) :
        (/\ ProperSeats(hist[i].body.seats) /\ ProperSeats(hist[j].body.seats)
         /\ Refused(hist[i]) /\ Refused(hist[j])
         /\ \A s \in SeatSet(hist[i].body.seats) : s \notin 1..NumSeats
         /\ \A s \in SeatSet(hist[j].body.seats) : s \in 1..NumSeats)
        => hist[i].status # hist[j].status

\* C16: every booking of the ledger records a movie of the catalog, names a
\* showtime of that movie, and lists only seats of that showtime.
C16_BookingsResolve ==
    \A k \in 1..Len(Ledger) :
        \E x \in Positions(Catalog) :
            /\ Catalog[x[1]].id = Ledger[k].movieId
            /\ Catalog[x[1]].showtimes[x[2]].id = Ledger[k].showtimeId
            /\ \A s \in SeatSet(Ledger[k].seats) :
                  s \in 1..Len(Catalog[x[1]].showtimes[x[2]].seats)

\* The ledger holds a booking that lists a seat.
C16_Witness ==
    \E k \in 1..Len(Ledger) : Ledger[k].seats # <<>>

\* The showtime the call of p works on.
ShowtimeOfCall(p) ==
    IF call[p].op = "create" THEN call[p].body.showtimeId
    ELSE lbooking[p][1].showtimeId

\* C18: the write of the movies by a create or a cancel leaves the seats of
\* every showtime other than its own as they are in the file.
C18_OtherShowingsUntouched ==
    [][\A p \in Procs :
        (pc[p] \in {"c124", "d161"} /\ pc'[p] # pc[p] /\ Len(moviesFile') = 1)
        => \A x \in Positions(Catalog) :
              Catalog[x[1]].showtimes[x[2]].id # ShowtimeOfCall(p)
                  => moviesFile'[1][x[1]].showtimes[x[2]].seats
                        = Catalog[x[1]].showtimes[x[2]].seats]_vars

\* The successful creates so far returned ids that differ.
IdsDistinct ==
    \A i, j \in 1..Len(hist) :
        (i < j /\ Created(hist[i]) /\ Created(hist[j]))
            => hist[i].booking[1].id # hist[j].booking[1].id

Canceled(e) == e.op = "cancel" /\ e.status = "200"

\* C19: a booking whose cancel was answered 200 is in the ledger no more, and
\* no other cancel of it was answered 200 (shown with no request in flight,
\* for bookings of distinct ids whose seat lists are not empty and repeat no
\* seat).
C19_CancelIsTerminal ==
    (Quiet /\ IdsDistinct /\ SeatListsProper)
        => \A i \in 1..Len(hist) :
              Canceled(hist[i])
                  => /\ \A k \in 1..Len(Ledger) : Ledger[k].id # hist[i].booking[1].id
                     /\ \A j \in 1..Len(hist) :
                           (j # i /\ Canceled(hist[j]))
                               => hist[j].booking[1].id # hist[i].booking[1].id

\* The seat map `after` is `before` with the requested seats booked and every
\* other seat as it was.
BookedExactly(before, after, requested) ==
    /\ Len(after) = Len(before)
    /\ \A i \in 1..Len(before) :
          after[i] = IF \E k \in 1..Len(requested) : requested[k] = i
                     THEN "booked" ELSE before[i]

\* The catalog `after` is `before` with the requested seats of the showtime
\* booked and nothing else changed.
CatalogBooked(before, after, showtimeId, requested) ==
    /\ Len(after) = Len(before)
    /\ \A i \in 1..Len(before) :
          /\ after[i].id = before[i].id
          /\ Len(after[i].showtimes) = Len(before[i].showtimes)
          /\ \A j \in 1..Len(before[i].showtimes) :
                /\ after[i].showtimes[j].id = before[i].showtimes[j].id
                /\ IF before[i].showtimes[j].id = showtimeId
                   THEN BookedExactly(before[i].showtimes[j].seats,
                                      after[i].showtimes[j].seats, requested)
                   ELSE after[i].showtimes[j].seats = before[i].showtimes[j].seats

\* C15: a create that runs with no other request and succeeds appends to the
\* ledger one booking with the customerName, showtimeId and seats of the
\* request, every earlier booking staying where it was, then books exactly the
\* requested seats of the showtime, every other seat staying as it was, and
\* answers 201 with the booking it appended.
C15_CreateEffect ==
    [][\A p \in Procs :
        /\ (pc[p] = "c123" /\ pc'[p] # "c123" /\ call[p].solo)
           => /\ Len(bookingsFile') = 1
              /\ Len(bookingsFile'[1]) = Len(Ledger) + 1
              /\ \A k \in 1..Len(Ledger) : bookingsFile'[1][k] = Ledger[k]
              /\ bookingsFile'[1][Len(Ledger) + 1].customerName = call[p].body.customerName
              /\ bookingsFile'[1][Len(Ledger) + 1].showtimeId = call[p].body.showtimeId
              /\ bookingsFile'[1][Len(Ledger) + 1].seats = call[p].body.seats
              /\ moviesFile' = moviesFile
        /\ (pc[p] = "c124" /\ pc'[p] # "c124" /\ call[p].solo)
           => /\ Len(moviesFile') = 1
              /\ CatalogBooked(Catalog, moviesFile'[1],
                               call[p].body.showtimeId, call[p].body.seats)
              /\ bookingsFile' = bookingsFile
              /\ hist'[Len(hist')].status = "201"
              /\ hist'[Len(hist')].booking = <<Ledger[Len(Ledger)]>>]_vars

\* A create that ran alone booked a seat and its booking stands last in a
\* ledger that held a booking before.
C15_Witness ==
    \E i \in 1..Len(hist) :
        /\ Created(hist[i]) /\ hist[i].solo
        /\ hist[i].body.seats # <<>>
        /\ Len(Ledger) >= 2
        /\ Ledger[Len(Ledger)] = hist[i].booking[1]
        /\ Ledger[1] # hist[i].booking[1]

\* ------------------------------------------------------------------ writes that fail

\* fs.writeJSON (lines 18, 123, 124, 161, 164) rejects (disk full, no
\* permission): the file stays as it is, the handler has no try/catch and its
\* promise rejects, no later line runs.
WriteFails(p) ==
    /\ pc[p] \in {"c123", "c124", "d161", "d164"}
    /\ Finish(p, call[p], "failed", <<>>, lbooking[p])
    /\ UNCHANGED <<moviesFile, bookingsFile, now, seedPc, warm>>

\* The server starts on the files of an earlier run.
InitFail == Init /\ warm

\* One request after the other, each write free to fail.
NextFail ==
    \/ Tick
    \/ \E body \in Bodies : PostStart("p1", body)
    \/ Post84("p1")
    \/ Post85("p1")
    \/ Post123("p1")
    \/ Post124("p1")
    \/ \E id \in BookingIds : DeleteStart("p1", id)
    \/ Delete144("p1")
    \/ Delete151("p1")
    \/ Delete161("p1")
    \/ Delete164("p1")
    \/ WriteFails("p1")

SpecFail == InitFail /\ [][NextFail]_vars

\* C14: the first call that ends because a write failed has written no file
\* before: not the ledger with the new booking (a create of seats that are
\* not empty and repeat no seat), not the catalog with a seat of the booking
\* freed (a cancel).
C14_NoPartialEffect ==
    \A i \in 1..Len(hist) :
        (/\ hist[i].status = "failed"
         /\ \A j \in 1..(i - 1) : hist[j].status # "failed"
         /\ \/ hist[i].op = "create" /\ ProperSeats(hist[i].body.seats)
            \/ \E s \in SeatSet(hist[i].booking[1].seats) : s \in 1..NumSeats)
        => ~hist[i].wrote

\* ------------------------------------------------------------------ a catalog that drifted

\* movies.json of an earlier run, edited since: seats A1 and A2 of s1 and seat
\* A1 of s2 are booked.
DriftMovies ==
    << [id |-> "m1",
        showtimes |-> << [id |-> "s1",
                          seats |-> SetStatus(AllAvailable, <<1, 2>>, "booked")] >>],
       [id |-> "m2",
        showtimes |-> << [id |-> "s2",
                          seats |-> SetStatus(AllAvailable, <<1>>, "booked")] >>] >>

Booking(id, movieId, showtimeId, seats) ==
    [id |-> id, customerName |-> "Al", movieId |-> movieId,
     showtimeId |-> showtimeId, seats |-> seats]

\* The first booking of bookings.json: of a movie the catalog has no more, of
\* a showtime its movie has no more, of a showtime that is now under another
\* movie, of a seat its showtime has no more (with and without a seat that is
\* still there), or of a seat that is still there.
DriftBookings ==
    { Booking(1, "m9", "s1", <<1>>),
      Booking(1, "m1", "s9", <<1>>),
      Booking(1, "m1", "s2", <<1>>),
      Booking(1, "m1", "s1", <<1, NumSeats + 1>>),
      Booking(1, "m1", "s1", <<NumSeats + 1>>),
      Booking(1, "m1", "s1", <<1>>) }

\* The server starts on such files; the second booking resolves.
InitDrift ==
    /\ warm = TRUE
    /\ moviesFile = <<DriftMovies>>
    /\ \E b \in DriftBookings :
          bookingsFile = << <<b, Booking(2, "m1", "s1", <<2>>)>> >>
    /\ seedPc = "done"
    /\ now = 1
    /\ pc = [p \in Procs |-> "idle"]
    /\ call = [p \in Procs |-> NoCall]
    /\ lmovies = [p \in Procs |-> <<>>]
    /\ lbookings = [p \in Procs |-> <<>>]
    /\ lbooking = [p \in Procs |-> <<>>]
    /\ hist = <<>>

\* One cancel after the other.
NextDrift ==
    \/ \E id \in BookingIds : DeleteStart("p1", id)
    \/ Delete144("p1")
    \/ Delete151("p1")
    \/ Delete161("p1")
    \/ Delete164("p1")

SpecDrift == InitDrift /\ [][NextDrift]_vars

\* The catalog `after` is `before` with exactly the seats of the booking that
\* its showtime, under its movie, has set to available.
CatalogFreed(before, after, booking) ==
    /\ Len(after) = Len(before)
    /\ \A i \in 1..Len(before) :
          /\ after[i].id = before[i].id
          /\ Len(after[i].showtimes) = Len(before[i].showtimes)
          /\ \A j \in 1..Len(before[i].showtimes) :
                /\ after[i].showtimes[j].id = before[i].showtimes[j].id
                /\ Len(after[i].showtimes[j].seats) = Len(before[i].showtimes[j].seats)
                /\ \A k \in 1..Len(before[i].showtimes[j].seats) :
                      after[i].showtimes[j].seats[k] =
                          IF /\ before[i].id = booking.movieId
                             /\ before[i].showtimes[j].id = booking.showtimeId
                             /\ k \in SeatSet(booking.seats)
                          THEN "available"
                          ELSE before[i].showtimes[j].seats[k]

\* The ledger `after` is `before` without the booking, the others in place.
LedgerWithout(before, after, booking) ==
    \E idx \in 1..Len(before) :
        /\ before[idx] = booking
        /\ Len(after) = Len(before) - 1
        /\ \A k \in 1..Len(after) :
              after[k] = IF k < idx THEN before[k] ELSE before[k + 1]

\* C17: a cancel of a booking of the ledger, served alone, goes on to the end
\* whatever its movie, showtime and seats resolve to: it answers 200, the
\* ledger it writes is the ledger without the booking, and the only change it
\* makes to the catalog is that the seats of the booking that resolve become
\* available.
C17_CancelUnderDrift ==
    [][\A p \in Procs :
        /\ (pc[p] = "d144" /\ pc'[p] # "d144" /\ ~NoSuchBooking(p))
           => pc'[p] = "d151" /\ moviesFile' = moviesFile /\ bookingsFile' = bookingsFile
        /\ (pc[p] = "d151" /\ pc'[p] # "d151")
           => /\ pc'[p] \in {"d161", "d164"}
              /\ moviesFile' = moviesFile /\ bookingsFile' = bookingsFile
              /\ pc'[p] = "d164" => CatalogFreed(Catalog, Catalog, lbooking[p][1])
        /\ (pc[p] = "d161" /\ pc'[p] # "d161")
           => /\ pc'[p] = "d164"
              /\ Len(moviesFile') = 1
              /\ CatalogFreed(Catalog, moviesFile'[1], lbooking[p][1])
              /\ bookingsFile' = bookingsFile
        /\ (pc[p] = "d164" /\ pc'[p] # "d164")
           => /\ hist'[Len(hist')].status = "200"
              /\ hist'[Len(hist')].booking = lbooking[p]
              /\ Len(bookingsFile') = 1
              /\ LedgerWithout(Ledger, bookingsFile'[1], lbooking[p][1])
              /\ moviesFile' = moviesFile]_vars

\* A booking that listed a seat its showtime has and a seat it has not was
\* canceled and the seat the showtime has is available.
C17_Witness ==
    \E i \in 1..Len(hist) :
        /\ Canceled(hist[i])
        /\ SeatSet(hist[i].booking[1].seats) = {1, NumSeats + 1}
        /\ Catalog[1].showtimes[1].seats[1] = "available"
        /\ \A k \in 1..Len(Ledger) : Ledger[k] # hist[i].booking[1]

\* ------------------------------------------------------------------ a start on some of the files

\* The files of an earlier run: seat A1 of s2 is booked by booking b1.
OldMovies == WithSeats(TwoMovies, 2, 1, SetStatus(AllAvailable, <<1>>, "booked"))

OldBookings == << Booking(1, "m2", "s2", <<1>>) >>

\* The server listens and ensureFiles starts; each file exists or not.
InitSeed ==
    /\ moviesFile \in {<<>>, <<OldMovies>>}
    /\ bookingsFile \in {<<>>, <<OldBookings>>}
    /\ warm = (Len(moviesFile) = 1 /\ Len(bookingsFile) = 1)
    /\ seedPc = "e22"
    /\ now = 1
    /\ pc = [p \in Procs |-> "idle"]
    /\ call = [p \in Procs |-> NoCall]
    /\ lmovies = [p \in Procs |-> <<>>]
    /\ lbookings = [p \in Procs |-> <<>>]
    /\ lbooking = [p \in Procs |-> <<>>]
    /\ hist = <<>>

\* ensureFiles at any pace while the requests are served one after the other.
NextSeed ==
    \/ Tick
    \/ Seed22
    \/ Seed23
    \/ Seed42
    \/ Seed43
    \/ \E body \in Bodies : PostStart("p1", body)
    \/ Post84("p1")
    \/ Post85("p1")
    \/ Post123("p1")
    \/ Post124("p1")
    \/ \E id \in BookingIds : DeleteStart("p1", id)
    \/ Delete144("p1")
    \/ Delete151("p1")
    \/ Delete161("p1")
    \/ Delete164("p1")

SpecSeed == InitSeed /\ [][NextSeed]_vars

\* One movie with one showtime of 36 seats, all available.
IsDefaultCatalog(movies) ==
    /\ Len(movies) = 1
    /\ Len(movies[1].showtimes) = 1
    /\ Len(movies[1].showtimes[1].seats) = NumSeats
    /\ \A i \in 1..NumSeats : movies[1].showtimes[1].seats[i] = "available"

\* C20: a step of ensureFiles leaves a file that exists as it is and never
\* stands before the write of a file that exists; a file it writes did not
\* exist and then holds the default catalog, or the empty ledger; when
\* ensureFiles is over both files exist.
C20_SeedingFillsAbsentOnly ==
    [][seedPc' # seedPc
        => /\ Len(moviesFile) = 1 => (moviesFile' = moviesFile /\ seedPc # "e23")
           /\ Len(bookingsFile) = 1 => (bookingsFile' = bookingsFile /\ seedPc # "e43")
           /\ moviesFile' # moviesFile
                 => /\ Len(moviesFile') = 1
                    /\ IsDefaultCatalog(moviesFile'[1])
                    /\ bookingsFile' = bookingsFile
           /\ bookingsFile' # bookingsFile
                 => /\ bookingsFile' = << <<>> >>
                    /\ moviesFile' = moviesFile
           /\ seedPc' = "done" => (Len(moviesFile') = 1 /\ Len(bookingsFile') = 1)]_vars

\* ensureFiles wrote the catalog, found the ledger of the earlier run and
\* left it as it was, and a request was served before ensureFiles ended.
C20_Witness ==
    /\ seedPc = "done"
    /\ ~warm
    /\ IsDefaultCatalog(Catalog)
    /\ Ledger = OldBookings
    /\ \E i \in 1..Len(hist) : ~hist[i].solo /\ hist[i].op = "cancel" /\ hist[i].status = "404"

\* ------------------------------------------------------------------ GET /api/bookings

\* A string is the sequence of its characters.  String.prototype.toLowerCase
\* on the letters that occur.
LowerOf(c) ==
    CASE c = "A" -> "a"
      [] c = "B" -> "b"
      [] c = "L" -> "l"
      [] c = "O" -> "o"
      [] OTHER -> c

toLowerCase(str) == [i \in 1..Len(str) |-> LowerOf(str[i])]

\* String.prototype.includes.
includes(str, q) ==
    \E i \in 0..(Len(str) - Len(q)) : SubSeq(str, i + 1, i + Len(q)) = q

\* Lines 133-136 on the bookings read: customer is <<>> when the query has no
\* `customer` and <<string>> when it has one.
ListSync(bookings, customer) ==
    LET q == toLowerCase(IF customer = <<>> THEN <<>> ELSE customer[1])
    IN  IF q = <<>> THEN bookings
        ELSE SelectSeq(bookings,
                       LAMBDA b : includes(toLowerCase(b.customerName), q))

CustomerNames == { <<"A", "l">>, <<"a", "L", "a">>, <<"B", "o">> }

\* No filter, the empty filter, and filters in either case.
Customers ==
    { <<>>, << <<>> >>, << <<"a">> >>, << <<"A", "L">> >>, << <<"l", "a">> >>,
      << <<"O">> >>, << <<"b", "a">> >> }

\* A ledger of an earlier run: booking b<k> of seat A<k> of s1 at position k.
NamedLedger(names) ==
    [k \in 1..Len(names) |->
        [id |-> k, customerName |-> names[k], movieId |-> "m1",
         showtimeId |-> "s1", seats |-> <<k>>]]

NamedCatalog(names) ==
    WithSeats(SeedMovies, 1, 1,
              [i \in 1..NumSeats |-> IF i <= Len(names) THEN "booked" ELSE "available"])

\* A first start on no file, or a start on the files of an earlier run.
InitList ==
    /\ \E w \in BOOLEAN :
          /\ warm = w
          /\ seedPc = IF w THEN "done" ELSE "e22"
          /\ IF w
             THEN \E names \in SeqsUpTo(CustomerNames, MaxLedger) :
                     /\ moviesFile = <<NamedCatalog(names)>>
                     /\ bookingsFile = <<NamedLedger(names)>>
             ELSE moviesFile = <<>> /\ bookingsFile = <<>>
    /\ now = 1
    /\ pc = [p \in Procs |-> "idle"]
    /\ call = [p \in Procs |-> NoCall]
    /\ lmovies = [p \in Procs |-> <<>>]
    /\ lbookings = [p \in Procs |-> <<>>]
    /\ lbooking = [p \in Procs |-> <<>>]
    /\ hist = <<>>

\* Lines 133-134: q is computed and the read of the bookings starts.
ListStart(p, customer) ==
    /\ FreeSlot(p)
    /\ Started < MaxCalls
    /\ call' = Arrive(p, "list", Body(customer, "", <<>>, FALSE), 0)
    /\ pc' = [pc EXCEPT ![p] = "l134"]
    /\ UNCHANGED <<moviesFile, bookingsFile, now, seedPc, lmovies, lbookings,
                   lbooking, warm, hist>>

\* Lines 134-136: bookings = await readJSON(BOOKINGS_FILE), then the answer.
List134(p) ==
    /\ pc[p] = "l134"
    /\ IF readJSONThrows(bookingsFile)
       THEN Finish(p, call[p], "threw", <<>>, <<>>)
       ELSE Finish(p, call[p], "200", <<>>,
                   ListSync(readJSON(bookingsFile), call[p].body.customerName))
    /\ UNCHANGED <<moviesFile, bookingsFile, now, seedPc, warm>>

NextList ==
    \/ Seed22
    \/ Seed23
    \/ Seed42
    \/ Seed43
    \/ \E p \in Procs, customer \in Customers : ListStart(p, customer)
    \/ \E p \in Procs : List134(p)

SpecList == InitList /\ [][NextList]_vars

\* Two characters are the same letter, whatever their case.
SameLetter(c, d) ==
    \/ c = d
    \/ {c, d} \in {{"a", "A"}, {"b", "B"}, {"l", "L"}, {"o", "O"}}

\* The filter occurs in the name, case set aside.
NameContains(name, filter) ==
    \E i \in 0..(Len(name) - Len(filter)) :
        \A k \in 1..Len(filter) : SameLetter(name[i + k], filter[k])

\* The bookings of the ledger a list with the query has to return.
Wanted(ledger, customer) ==
    {i \in 1..Len(ledger) :
        customer = <<>> \/ customer[1] = <<>>
            \/ NameContains(ledger[i].customerName, customer[1])}

\* result holds the bookings of the ledger at the positions I, in their order.
InOrder(result, ledger, I) ==
    /\ Len(result) = Cardinality(I)
    /\ \A i \in I : result[Cardinality({j \in I : j <= i})] = ledger[i]

\* C12: a list answers with every booking of the ledger, in the order of the
\* ledger, when the query has no filter or an empty one, with exactly the
\* bookings whose customer name contains the filter, case set aside, in the
\* order of the ledger, when it has one, and changes no file.
C12_ListBookings ==
    [][\A p \in Procs :
        (pc[p] = "l134" /\ pc'[p] # "l134")
        => /\ hist'[Len(hist')].status = "200"
           /\ InOrder(hist'[Len(hist')].booking, Ledger,
                      Wanted(Ledger, call[p].body.customerName))
           /\ moviesFile' = moviesFile
           /\ bookingsFile' = bookingsFile]_vars

====
